---- MODULE Spec2Model ----
(***************************************************************************)
(* Model of src/src/CodeFlows.ts: the conversion of the SARIF code flows   *)
(* of a result into the CodeFlow / ThreadFlow / CodeFlowStep tree          *)
(* (CodeFlows.create) and the later re-resolution of its not mapped        *)
(* locations (CodeFlows.tryRemapCodeFlows).                                *)
(*                                                                         *)
(* Both operations are async functions.  They are suspended only on        *)
(* Location.create; every action below runs one of them from one such      *)
(* suspension point to the next one, or to its return or rejection.        *)
(*                                                                         *)
(* JavaScript values: an optional value is Undefined (<< >>) or Def(v)     *)
(* (<<v>>); arrays are sequences, the source's 0-based index n is the      *)
(* sequence index n + 1.                                                   *)
(***************************************************************************)
EXTENDS Integers, Sequences, FiniteSets, TLC

Undefined == << >>
Def(v) == <<v>>
Val(o) == o[1]

(* The null location of a step (tested by tryRemapCodeFlows). *)
Null == [isNull |-> TRUE]

(***************************************************************************)
(* Bounds of the inputs.                                                   *)
(***************************************************************************)
\* Spec: flows + thread flows + locations of the raw array, together
MaxNodes == 6
\* SpecStep: locations of the single thread flow
MaxSteps == 2
\* SpecMsg: thread flows of the single code flow
MaxMsgThreads == 2

Descriptors == {"a.c", "b.c"}
NestingLevels == {Undefined, Def(0), Def(1)}
\* a message without text (only a messageId), an empty text, a text
Messages == {Undefined, Def([text |-> Undefined]), Def([text |-> Def("")]), Def([text |-> Def("m")])}

(***************************************************************************)
(* External collaborators.                                                 *)
(***************************************************************************)
\* What Location.create does for a physical location: rejects, or resolves
\* with a Location that is mapped or not.
Outcomes == {"mapped", "notMapped", "fail"}

LocationCreate(physicalLocation, files) ==
    [mapped |-> files[physicalLocation] = "mapped", uri |-> physicalLocation]

\* Utilities.parseSarifMessage: a message with a text, or undefined
parseSarifMessage(sarifMessage) ==
    IF sarifMessage = Undefined THEN Undefined
    ELSE IF Val(sarifMessage).text = Undefined THEN Undefined
    ELSE Def([text |-> Val(Val(sarifMessage).text)])

ExplorerCallbackCommand == "extension.sarif.ExplorerCallback"
ImportanceImportant == "important"

(***************************************************************************)
(* JavaScript operators.                                                   *)
(***************************************************************************)
\* a < b on optional numbers: false when either side is undefined (NaN)
JsLess(a, b) == a # Undefined /\ b # Undefined /\ Val(a) < Val(b)

Digit(d) == CASE d = 0 -> "0" [] d = 1 -> "1" [] d = 2 -> "2" [] d = 3 -> "3"
              [] d = 4 -> "4" [] d = 5 -> "5" [] d = 6 -> "6" [] d = 7 -> "7"
              [] d = 8 -> "8" [] d = 9 -> "9"

RECURSIVE NumberToString(_)
\* `${n}` of a non-negative integer
NumberToString(n) ==
    IF n < 10 THEN Digit(n) ELSE NumberToString(n \div 10) \o Digit(n % 10)

(***************************************************************************)
(* createCodeFlowStep, after Location.create resolved with loc.            *)
(***************************************************************************)
\* StepFlags comparing the numbers only, an undefined level never classifying
StepFlagsOfNumbers(cFLoc, nextCFLoc) ==
    IF nextCFLoc # Undefined
    THEN IF JsLess(cFLoc.nestingLevel, Val(nextCFLoc).nestingLevel)
         THEN [isParent |-> TRUE, isLastChild |-> FALSE]
         ELSE IF JsLess(Val(nextCFLoc).nestingLevel, cFLoc.nestingLevel)
              THEN [isParent |-> FALSE, isLastChild |-> TRUE]
              ELSE [isParent |-> FALSE, isLastChild |-> FALSE]
    ELSE [isParent |-> FALSE, isLastChild |-> FALSE]

StepFlags(cFLoc, nextCFLoc) ==
    IF nextCFLoc # Undefined
    THEN IF JsLess(cFLoc.nestingLevel, Val(nextCFLoc).nestingLevel)
            \/ (cFLoc.nestingLevel = Undefined /\ Val(nextCFLoc).nestingLevel # Undefined)
         THEN [isParent |-> TRUE, isLastChild |-> FALSE]
         ELSE IF JsLess(Val(nextCFLoc).nestingLevel, cFLoc.nestingLevel)
                 \/ (cFLoc.nestingLevel # Undefined /\ Val(nextCFLoc).nestingLevel = Undefined)
              THEN [isParent |-> FALSE, isLastChild |-> TRUE]
              ELSE [isParent |-> FALSE, isLastChild |-> FALSE]
    ELSE [isParent |-> FALSE, isLastChild |-> FALSE]

\* StepMessage falling back only when the parser has no result
StepMessageOfEmptyText(cFLoc, isLastChildFlag) ==
    LET message == parseSarifMessage(cFLoc.location.message)
    IN  IF message = Undefined
        THEN IF isLastChildFlag THEN "[return call]" ELSE "[no description]"
        ELSE Val(message).text

StepMessage(cFLoc, isLastChildFlag) ==
    LET message == parseSarifMessage(cFLoc.location.message)
        messageText == IF message # Undefined THEN Val(message).text ELSE ""
    IN  IF messageText = ""
        THEN IF isLastChildFlag THEN "[return call]" ELSE "[no description]"
        ELSE messageText

createCodeFlowStep(cFLoc, nextCFLoc, traversalPathId, loc) ==
    LET flags == StepFlags(cFLoc, nextCFLoc)
        messageText == StepMessage(cFLoc, flags.isLastChild)
        messageWithStepText ==
            IF cFLoc.step # Undefined
            THEN "Step " \o NumberToString(Val(cFLoc.step)) \o ": " \o messageText
            ELSE messageText
        command == [arguments |-> <<[request |-> "CodeFlowTreeSelectionChange",
                                     treeid_step |-> traversalPathId]>>,
                    command |-> ExplorerCallbackCommand,
                    title |-> messageWithStepText]
    IN  [codeLensCommand |-> command,
         importance |-> IF cFLoc.importance # Undefined
                        THEN Val(cFLoc.importance) ELSE ImportanceImportant,
         isLastChild |-> flags.isLastChild,
         isParent |-> flags.isParent,
         location |-> loc,
         message |-> messageText,
         messageWithStep |-> messageWithStepText,
         state |-> cFLoc.state,
         stepId |-> cFLoc.step,
         traversalId |-> traversalPathId]

(***************************************************************************)
(* The raw inputs.                                                         *)
(***************************************************************************)
RawLocation(physicalLocation, nestingLevel, message, step, importance, state) ==
    [location |-> [physicalLocation |-> physicalLocation, message |-> message],
     nestingLevel |-> nestingLevel, step |-> step,
     importance |-> importance, state |-> state]

PlainLocation(physicalLocation) ==
    RawLocation(physicalLocation, Undefined, Undefined, Undefined, Undefined, Undefined)

SeqsUpTo(S, n) == UNION {[1..m -> S] : m \in 0..n}

RECURSIVE ThreadSeqs(_)
\* the sequences of thread flows (each one node plus its locations) of n nodes
ThreadSeqs(n) ==
    IF n = 0 THEN {<< >>}
    ELSE UNION {{<<[id |-> Undefined, message |-> Undefined, locations |-> ls]>> \o rest :
                    ls \in [1..(m - 1) -> {PlainLocation(d) : d \in Descriptors}],
                    rest \in ThreadSeqs(n - m)} : m \in 1..n}

RECURSIVE FlowSeqs(_)
\* the sequences of code flows (each one node plus its thread flows) of n nodes
FlowSeqs(n) ==
    IF n = 0 THEN {<< >>}
    ELSE UNION {{<<[message |-> Undefined, threadFlows |-> ts]>> \o rest :
                    ts \in ThreadSeqs(m - 1),
                    rest \in FlowSeqs(n - m)} : m \in 1..n}

\* Spec: every shape of at most MaxNodes nodes, every assignment of descriptors
ShapeInputs == {Undefined} \cup {Def(a) : a \in UNION {FlowSeqs(n) : n \in 0..MaxNodes}}

\* SpecStep: one thread flow, every nesting level and message of its locations
StepInputs ==
    {Def(<<[message |-> Undefined,
            threadFlows |-> <<[id |-> Def("t"), message |-> Undefined, locations |-> ls]>>]>>) :
        ls \in SeqsUpTo({RawLocation("a.c", n, m, Undefined, Undefined, Undefined) :
                            n \in NestingLevels, m \in Messages}, MaxSteps)}

\* SpecMsg: one code flow, every message of the flow and of its thread flows
MsgInputs ==
    {Def(<<[message |-> fm, threadFlows |-> ts]>>) :
        fm \in Messages,
        ts \in SeqsUpTo({[id |-> Undefined, message |-> tm, locations |-> ls] :
                            tm \in Messages,
                            ls \in {<< >>,
                                    <<PlainLocation("a.c")>>,
                                    <<RawLocation("b.c", Def(0), Undefined, Def(5),
                                                  Def("essential"), Def("x=1"))>>}},
                        MaxMsgThreads)}

(***************************************************************************)
(* State.                                                                  *)
(***************************************************************************)
VARIABLES
    sarifCodeFlows, \* the raw code flows of the result, the argument of both calls
    files,          \* what Location.create does now for each physical location
    pc,             \* where the running call is suspended, or how the last one ended
    cFIndex, tFIndex, stepIndex,      \* create: the three loop indices
    codeFlows, codeFlow, threadFlow,  \* create: the objects under construction
    cFKey, tFKey, stepKey,            \* tryRemapCodeFlows: the three loop keys
    returned,       \* the value create resolved with, then the tree remapped in place
    error,          \* the reason of the last rejection
    calls,          \* the positions Location.create was called for by the current call
    before,         \* the tree when the current tryRemapCodeFlows call started
    unchanged,      \* files is what it was when the last call started
    repeated        \* the current tryRemapCodeFlows call follows another one, files unchanged

vars == <<sarifCodeFlows, files, pc, cFIndex, tFIndex, stepIndex, codeFlows, codeFlow,
          threadFlow, cFKey, tFKey, stepKey, returned, error, calls, before, unchanged,
          repeated>>

NoFlow == [message |-> Undefined, threads |-> << >>]
NoThread == [id |-> Undefined, message |-> Undefined, steps |-> << >>]

Idle == {"created", "remapDone", "remapRejected"}

(***************************************************************************)
(* create and its helpers createCodeFlow and createThreadFlow.             *)
(***************************************************************************)
\* At going round to the first element past the end
AtOrFirst(array, n) == Def(array[(n % Len(array)) + 1])

\* array[n] of JavaScript: undefined past the end
At(array, n) == IF n < Len(array) THEN Def(array[n + 1]) ELSE Undefined

\* ChildTraversalId without the separator
ChildTraversalIdJoined(traversalId, index) == traversalId \o NumberToString(index)

\* `${traversalId}_${index}`
ChildTraversalId(traversalId, index) == traversalId \o "_" \o NumberToString(index)

\* x.message of createCodeFlow and createThreadFlow: the parsed text of a
\* message that is not undefined; reading .text of no parser result throws
MessageThrows(sarifMessage) ==
    sarifMessage # Undefined /\ parseSarifMessage(sarifMessage) = Undefined

MessageText(sarifMessage) ==
    IF sarifMessage # Undefined
    THEN Def(Val(parseSarifMessage(sarifMessage)).text)
    ELSE Undefined

\* CreateRejected giving the flows converted so far instead of rejecting
CreateRejectedWithFlows(reason) ==
    [pc |-> "created", cFIndex |-> 0, tFIndex |-> 0, stepIndex |-> 0,
     codeFlows |-> << >>, codeFlow |-> NoFlow, threadFlow |-> NoThread,
     returned |-> Def(codeFlows), error |-> reason]

CreateRejected(reason) ==
    [pc |-> "createRejected", cFIndex |-> 0, tFIndex |-> 0, stepIndex |-> 0,
     codeFlows |-> << >>, codeFlow |-> NoFlow, threadFlow |-> NoThread,
     returned |-> Undefined, error |-> reason]

CreateResolved(value) ==
    [pc |-> "created", cFIndex |-> 0, tFIndex |-> 0, stepIndex |-> 0,
     codeFlows |-> << >>, codeFlow |-> NoFlow, threadFlow |-> NoThread,
     returned |-> value, error |-> "none"]

RECURSIVE CreateRun(_, _, _, _, _, _, _, _)
\* Runs create from the test of one of its three loops ("flows" in create,
\* "threads" in createCodeFlow, "steps" in createThreadFlow) to the next call
\* of Location.create, or to its end.
CreateRun(sarifCFs, at, i, j, k, cFs, cF, tF) ==
    CASE at = "flows" ->
            IF i < Len(sarifCFs)
            THEN LET sarifCF == sarifCFs[i + 1]
                 IN  IF MessageThrows(sarifCF.message)
                     THEN CreateRejected("TypeError")
                     ELSE CreateRun(sarifCFs, "threads", i, 0, 0, cFs,
                                    [message |-> MessageText(sarifCF.message),
                                     threads |-> << >>], tF)
            ELSE CreateResolved(Def(cFs))
      [] at = "threads" ->
            IF j < Len(sarifCFs[i + 1].threadFlows)
            THEN LET sarifTF == sarifCFs[i + 1].threadFlows[j + 1]
                 IN  IF MessageThrows(sarifTF.message)
                     THEN CreateRejected("TypeError")
                     ELSE CreateRun(sarifCFs, "steps", i, j, 0, cFs, cF,
                                    [id |-> sarifTF.id,
                                     message |-> MessageText(sarifTF.message),
                                     steps |-> << >>])
            ELSE CreateRun(sarifCFs, "flows", i + 1, 0, 0, Append(cFs, cF), NoFlow, tF)
      [] at = "steps" ->
            IF k < Len(sarifCFs[i + 1].threadFlows[j + 1].locations)
            THEN [pc |-> "createAwait", cFIndex |-> i, tFIndex |-> j, stepIndex |-> k,
                  codeFlows |-> cFs, codeFlow |-> cF, threadFlow |-> tF,
                  returned |-> Undefined, error |-> "none"]
            ELSE CreateRun(sarifCFs, "threads", i, j + 1, 0, cFs,
                           [cF EXCEPT !.threads = Append(@, tF)], NoThread)

\* create testing only for undefined, not for the empty array
createOfEmpty(sarifCFs) ==
    IF sarifCFs # Undefined
    THEN CreateRun(Val(sarifCFs), "flows", 0, 0, 0, << >>, NoFlow, NoThread)
    ELSE CreateResolved(Undefined)

\* create, to its first suspension
create(sarifCFs) ==
    IF sarifCFs # Undefined /\ Len(Val(sarifCFs)) # 0
    THEN CreateRun(Val(sarifCFs), "flows", 0, 0, 0, << >>, NoFlow, NoThread)
    ELSE CreateResolved(Undefined)

\* createThreadFlow's loop body once Location.create resolved with loc: the
\* step is made of locations[stepIndex] and locations[stepIndex + 1], pushed,
\* and the loops go on
CreateStepDone(sarifCFs, i, j, k, cFs, cF, tF, loc) ==
    LET sarifTF == sarifCFs[i + 1].threadFlows[j + 1]
        traversalId == ChildTraversalId(ChildTraversalId(NumberToString(i), j), k)
        step == createCodeFlowStep(sarifTF.locations[k + 1], At(sarifTF.locations, k + 1),
                                   traversalId, loc)
    IN  CreateRun(sarifCFs, "steps", i, j, k + 1, cFs, cF,
                  [tF EXCEPT !.steps = Append(@, step)])

CurrentDescriptor(sarifCFs, i, j, k) ==
    Val(sarifCFs)[i + 1].threadFlows[j + 1].locations[k + 1].location.physicalLocation

SetCreate(r) ==
    /\ pc' = r.pc
    /\ cFIndex' = r.cFIndex /\ tFIndex' = r.tFIndex /\ stepIndex' = r.stepIndex
    /\ codeFlows' = r.codeFlows /\ codeFlow' = r.codeFlow /\ threadFlow' = r.threadFlow
    /\ returned' = r.returned
    /\ error' = r.error

\* a call of Location.create for the position the create loops are at
LogCall(r) ==
    IF r.pc = "createAwait"
    THEN Append(calls, <<r.cFIndex, r.tFIndex, r.stepIndex>>)
    ELSE calls

CreateCall ==
    /\ pc = "start"
    /\ LET r == create(sarifCodeFlows)
       IN  SetCreate(r) /\ calls' = LogCall(r)
    /\ UNCHANGED <<sarifCodeFlows, files, cFKey, tFKey, stepKey, before, unchanged, repeated>>

\* Location.create resolves; the conversion goes on to its next call or its end
CreateLocated ==
    /\ pc = "createAwait"
    /\ files[CurrentDescriptor(sarifCodeFlows, cFIndex, tFIndex, stepIndex)] # "fail"
    /\ LET loc == LocationCreate(
                      CurrentDescriptor(sarifCodeFlows, cFIndex, tFIndex, stepIndex), files)
           r == CreateStepDone(Val(sarifCodeFlows), cFIndex, tFIndex, stepIndex,
                               codeFlows, codeFlow, threadFlow, loc)
       IN  SetCreate(r) /\ calls' = LogCall(r)
    /\ UNCHANGED <<sarifCodeFlows, files, cFKey, tFKey, stepKey, before, unchanged, repeated>>

\* Location.create rejects; no then-callback runs and every await rethrows
CreateFailed ==
    /\ pc = "createAwait"
    /\ files[CurrentDescriptor(sarifCodeFlows, cFIndex, tFIndex, stepIndex)] = "fail"
    /\ SetCreate(CreateRejected("ResolutionFailure"))
    /\ UNCHANGED <<sarifCodeFlows, files, cFKey, tFKey, stepKey, calls, before, unchanged, repeated>>

(***************************************************************************)
(* tryRemapCodeFlows.                                                      *)
(***************************************************************************)
\* NeedsRemap without the test of mapped
NeedsRemapOfMapped(step) == step.location # Null

NeedsRemap(step) == step.location # Null /\ step.location.mapped # TRUE

\* sarifCodeFlows[cFKey].threadFlows[tFKey].locations[stepKey].location can be read
HasRawLocation(sarifCFs, i, j, k) ==
    /\ sarifCFs # Undefined
    /\ i < Len(Val(sarifCFs))
    /\ j < Len(Val(sarifCFs)[i + 1].threadFlows)
    /\ k < Len(Val(sarifCFs)[i + 1].threadFlows[j + 1].locations)

\* the physical location tryRemapCodeFlows resolves for the step at its keys
RemapDescriptor(sarifCFs, i, j, k) == CurrentDescriptor(sarifCFs, i, j, k)

RemapEnd(state, reason) ==
    [pc |-> state, cFKey |-> 0, tFKey |-> 0, stepKey |-> 0, error |-> reason]

RECURSIVE RemapRun(_, _, _, _, _)
\* Runs the three loops from the step at the keys to the next step it calls
\* Location.create for, or to their end.
RemapRun(cFs, sarifCFs, i, j, k) ==
    IF i >= Len(cFs) THEN RemapEnd("remapDone", "none")
    ELSE IF j >= Len(cFs[i + 1].threads) THEN RemapRun(cFs, sarifCFs, i + 1, 0, 0)
    ELSE IF k >= Len(cFs[i + 1].threads[j + 1].steps) THEN RemapRun(cFs, sarifCFs, i, j + 1, 0)
    ELSE IF NeedsRemap(cFs[i + 1].threads[j + 1].steps[k + 1])
         THEN IF HasRawLocation(sarifCFs, i, j, k)
              THEN [pc |-> "remapAwait", cFKey |-> i, tFKey |-> j, stepKey |-> k,
                    error |-> "none"]
              ELSE RemapEnd("remapRejected", "TypeError")
         ELSE RemapRun(cFs, sarifCFs, i, j, k + 1)

\* tryRemapCodeFlows, to its first suspension; codeFlows.keys() of undefined throws
tryRemapCodeFlows(cFs, sarifCFs) ==
    IF cFs = Undefined
    THEN RemapEnd("remapRejected", "TypeError")
    ELSE RemapRun(Val(cFs), sarifCFs, 0, 0, 0)

\* SetLocation writing the first step of the thread
SetLocationOfFirst(cFs, i, j, k, location) ==
    Def([Val(cFs) EXCEPT ![i + 1].threads[j + 1].steps[1].location = location])

\* the then-callback: codeFlows[cFKey].threads[tFKey].steps[stepKey].location = location
SetLocation(cFs, i, j, k, location) ==
    Def([Val(cFs) EXCEPT ![i + 1].threads[j + 1].steps[k + 1].location = location])

RemapCall ==
    /\ pc \in Idle
    /\ before' = returned
    /\ repeated' = (unchanged /\ pc \in {"remapDone", "remapRejected"})
    /\ unchanged' = TRUE
    /\ LET r == tryRemapCodeFlows(returned, sarifCodeFlows)
       IN  /\ pc' = r.pc
           /\ cFKey' = r.cFKey /\ tFKey' = r.tFKey /\ stepKey' = r.stepKey
           /\ error' = r.error
           /\ calls' = IF r.pc = "remapAwait"
                       THEN <<<<r.cFKey, r.tFKey, r.stepKey>>>> ELSE << >>
    /\ UNCHANGED <<sarifCodeFlows, files, cFIndex, tFIndex, stepIndex, codeFlows, codeFlow,
                   threadFlow, returned>>

\* Location.create resolves; the step gets the location and the loops go on
RemapLocated ==
    /\ pc = "remapAwait"
    /\ files[RemapDescriptor(sarifCodeFlows, cFKey, tFKey, stepKey)] # "fail"
    /\ LET loc == LocationCreate(RemapDescriptor(sarifCodeFlows, cFKey, tFKey, stepKey), files)
           cFs == SetLocation(returned, cFKey, tFKey, stepKey, loc)
           r == RemapRun(Val(cFs), sarifCodeFlows, cFKey, tFKey, stepKey + 1)
       IN  /\ returned' = cFs
           /\ pc' = r.pc
           /\ cFKey' = r.cFKey /\ tFKey' = r.tFKey /\ stepKey' = r.stepKey
           /\ error' = r.error
           /\ calls' = IF r.pc = "remapAwait"
                       THEN Append(calls, <<r.cFKey, r.tFKey, r.stepKey>>) ELSE calls
    /\ UNCHANGED <<sarifCodeFlows, files, cFIndex, tFIndex, stepIndex, codeFlows, codeFlow,
                   threadFlow, before, unchanged, repeated>>

\* Location.create rejects; the call rejects, the steps patched so far stay patched
RemapFailed ==
    /\ pc = "remapAwait"
    /\ files[RemapDescriptor(sarifCodeFlows, cFKey, tFKey, stepKey)] = "fail"
    /\ pc' = "remapRejected"
    /\ cFKey' = 0 /\ tFKey' = 0 /\ stepKey' = 0
    /\ error' = "ResolutionFailure"
    /\ UNCHANGED <<sarifCodeFlows, files, cFIndex, tFIndex, stepIndex, codeFlows, codeFlow,
                   threadFlow, returned, calls, before, unchanged, repeated>>

\* Between two calls, files get mapped or lost: Location.create answers differently
FilesChange ==
    /\ pc \in Idle
    /\ \E f \in [Descriptors -> Outcomes] : f # files /\ files' = f
    /\ unchanged' = FALSE
    /\ UNCHANGED <<sarifCodeFlows, pc, cFIndex, tFIndex, stepIndex, codeFlows, codeFlow,
                   threadFlow, cFKey, tFKey, stepKey, returned, error, calls, before,
                   repeated>>

(***************************************************************************)
(* Specifications: the same operations over three families of inputs.      *)
(***************************************************************************)
InitWith(inputs) ==
    /\ sarifCodeFlows \in inputs
    /\ files \in [Descriptors -> Outcomes]
    /\ pc = "start"
    /\ cFIndex = 0 /\ tFIndex = 0 /\ stepIndex = 0
    /\ codeFlows = << >> /\ codeFlow = NoFlow /\ threadFlow = NoThread
    /\ cFKey = 0 /\ tFKey = 0 /\ stepKey = 0
    /\ returned = Undefined
    /\ error = "none"
    /\ calls = << >>
    /\ before = Undefined
    /\ unchanged = TRUE
    /\ repeated = FALSE

Init == InitWith(ShapeInputs)
InitStep == InitWith(StepInputs)
InitMsg == InitWith(MsgInputs)

Next ==
    \/ CreateCall
    \/ CreateLocated
    \/ CreateFailed
    \/ RemapCall
    \/ RemapLocated
    \/ RemapFailed
    \/ FilesChange

Spec == Init /\ [][Next]_vars
SpecStep == InitStep /\ [][Next]_vars
SpecMsg == InitMsg /\ [][Next]_vars

(***************************************************************************)
(* Vocabulary of the properties.                                           *)
(***************************************************************************)
Raw == Val(sarifCodeFlows)
Tree == Val(returned)

\* create has resolved, with a tree
HasTree == pc \in Idle \cup {"remapAwait"} /\ returned # Undefined

\* create runs or has ended, and Location.create answers as it did for it
Creating == pc \in {"createAwait", "created", "createRejected"} /\ unchanged
Remapping == pc \in {"remapAwait", "remapDone", "remapRejected"}

RawPositions ==
    IF sarifCodeFlows = Undefined THEN {}
    ELSE UNION {UNION {{<<i, j, k>> :
                          k \in 0..(Len(Raw[i + 1].threadFlows[j + 1].locations) - 1)} :
                       j \in 0..(Len(Raw[i + 1].threadFlows) - 1)} :
                i \in 0..(Len(Raw) - 1)}

TreePositions(cFs) ==
    UNION {UNION {{<<i, j, k>> : k \in 0..(Len(cFs[i + 1].threads[j + 1].steps) - 1)} :
                  j \in 0..(Len(cFs[i + 1].threads) - 1)} :
           i \in 0..(Len(cFs) - 1)}

RawOf(p) == Raw[p[1] + 1].threadFlows[p[2] + 1].locations[p[3] + 1]
StepOf(cFs, p) == cFs[p[1] + 1].threads[p[2] + 1].steps[p[3] + 1]
DescriptorOf(p) == RawOf(p).location.physicalLocation
Following(p) == <<p[1], p[2], p[3] + 1>>

LexLess(p, q) ==
    \/ p[1] < q[1]
    \/ p[1] = q[1] /\ p[2] < q[2]
    \/ p[1] = q[1] /\ p[2] = q[2] /\ p[3] < q[3]

Below(a, b) == a # Undefined /\ b # Undefined /\ Val(a) < Val(b)

Decimal(n) == <<"0", "1", "2", "3", "4", "5", "6", "7", "8", "9">>[n + 1]

\* the text of a raw message, "" when it has none
TextOf(m) ==
    IF m = Undefined THEN ""
    ELSE IF Val(m).text = Undefined THEN "" ELSE Val(Val(m).text)

HasText(m) == m # Undefined /\ Val(m).text # Undefined

(***************************************************************************)
(* Classification and labels of the steps (SpecStep).                      *)
(***************************************************************************)
\* C1: for every step that has a following raw location, with cur and nxt
\* the nesting levels of its raw location and of the following one: isParent
\* is true exactly when cur < nxt, or cur is undefined and nxt is defined;
\* isLastChild is true exactly when cur > nxt, or cur is defined and nxt is
\* undefined; both are false when cur = nxt (both undefined included); and
\* no step has isParent and isLastChild both true.
C1_Classification ==
    HasTree =>
        \A p \in TreePositions(Tree) :
            LET step == StepOf(Tree, p)
            IN  /\ ~(step.isParent /\ step.isLastChild)
                /\ Following(p) \in RawPositions =>
                      LET cur == RawOf(p).nestingLevel
                          nxt == RawOf(Following(p)).nestingLevel
                      IN  /\ step.isParent <=>
                                (Below(cur, nxt) \/ (cur = Undefined /\ nxt # Undefined))
                          /\ step.isLastChild <=>
                                (Below(nxt, cur) \/ (cur # Undefined /\ nxt = Undefined))
                          /\ cur = nxt => (~step.isParent /\ ~step.isLastChild)

\* a step at level 1 before a step at level 0 is a last child, not a parent
C1_Witness ==
    /\ HasTree
    /\ \E p \in TreePositions(Tree) :
          /\ Following(p) \in RawPositions
          /\ RawOf(p).nestingLevel = Def(1)
          /\ RawOf(Following(p)).nestingLevel = Def(0)
          /\ StepOf(Tree, p).isLastChild
          /\ ~StepOf(Tree, p).isParent

\* C2: in a tree create returned, the last step of every thread that has a
\* step has isParent = FALSE and isLastChild = FALSE, whatever the nesting
\* levels of the raw locations.
C2_LastStepPlain ==
    HasTree =>
        \A i \in 1..Len(Tree) : \A j \in 1..Len(Tree[i].threads) :
            LET steps == Tree[i].threads[j].steps
            IN  Len(steps) > 0 =>
                    (~steps[Len(steps)].isParent /\ ~steps[Len(steps)].isLastChild)

\* a thread of two steps, the first a parent, the last at the deeper level
C2_Witness ==
    /\ HasTree
    /\ Len(Tree[1].threads[1].steps) = 2
    /\ Raw[1].threadFlows[1].locations[1].nestingLevel = Def(0)
    /\ Raw[1].threadFlows[1].locations[2].nestingLevel = Def(1)
    /\ Tree[1].threads[1].steps[1].isParent
    /\ ~Tree[1].threads[1].steps[2].isParent
    /\ ~Tree[1].threads[1].steps[2].isLastChild

\* C9: the message of a step is the text of its raw location's message when
\* that text is not empty; without a message, without a parser result or with
\* an empty text it is "[return call]" when the step's isLastChild is true and
\* "[no description]" otherwise; so no step has an empty message, and the last
\* step of a thread without a text has "[no description]".
C9_StepMessage ==
    HasTree =>
        \A p \in TreePositions(Tree) :
            LET step == StepOf(Tree, p)
                text == TextOf(RawOf(p).location.message)
            IN  /\ step.message # ""
                /\ text # "" => step.message = text
                /\ text = "" =>
                      step.message = IF step.isLastChild
                                     THEN "[return call]" ELSE "[no description]"
                /\ (text = "" /\ Following(p) \notin RawPositions) =>
                      step.message = "[no description]"

\* a returning step whose message has an empty text, before a last step
\* without a message
C9_Witness ==
    /\ HasTree
    /\ \E p \in TreePositions(Tree) :
          /\ RawOf(p).location.message = Def([text |-> Def("")])
          /\ StepOf(Tree, p).isLastChild
          /\ StepOf(Tree, p).message = "[return call]"
          /\ Following(p) \in TreePositions(Tree)
          /\ RawOf(Following(p)).location.message = Undefined
          /\ StepOf(Tree, Following(p)).message = "[no description]"

(***************************************************************************)
(* Shape, identifiers and failure of create (Spec).                        *)
(***************************************************************************)
\* C3: create resolves with undefined, not with an empty sequence, when the
\* raw array is undefined or empty; for a non-empty raw array it resolves
\* with one flow per raw code flow, one thread per raw thread flow and one
\* step per raw location, each at the index of the raw object it converts.
C3_ShapePreserved ==
    pc = "created" =>
        IF sarifCodeFlows = Undefined \/ Len(Raw) = 0
        THEN returned = Undefined
        ELSE /\ returned # Undefined
             /\ Len(Tree) = Len(Raw)
             /\ \A i \in 1..Len(Tree) :
                   /\ Len(Tree[i].threads) = Len(Raw[i].threadFlows)
                   /\ \A j \in 1..Len(Tree[i].threads) :
                         /\ Len(Tree[i].threads[j].steps)
                               = Len(Raw[i].threadFlows[j].locations)
                         /\ \A k \in 1..Len(Tree[i].threads[j].steps) :
                               Tree[i].threads[j].steps[k].location.uri
                                  = Raw[i].threadFlows[j].locations[k].location.physicalLocation

\* two flows, the first without a thread, the steps of the thread of the
\* second in the order of its two different raw locations
C3_Witness ==
    /\ pc = "created"
    /\ returned # Undefined
    /\ Len(Tree) = 2
    /\ Len(Tree[1].threads) = 0
    /\ Len(Tree[2].threads) = 1
    /\ Len(Tree[2].threads[1].steps) = 2
    /\ Tree[2].threads[1].steps[1].location.uri = "b.c"
    /\ Tree[2].threads[1].steps[2].location.uri = "a.c"

\* C4: the step at flow index i, thread index j, step index k has the
\* traversalId "i_j_k", its selection command carries the same id, and no two
\* steps of the tree have the same traversalId.
C4_TraversalIds ==
    HasTree =>
        /\ \A p \in TreePositions(Tree) :
              LET step == StepOf(Tree, p)
              IN  /\ step.traversalId
                        = Decimal(p[1]) \o "_" \o Decimal(p[2]) \o "_" \o Decimal(p[3])
                  /\ step.codeLensCommand.arguments[1].treeid_step = step.traversalId
        /\ \A p, q \in TreePositions(Tree) :
              p # q => StepOf(Tree, p).traversalId # StepOf(Tree, q).traversalId

\* a second step of the second thread of the second flow
C4_Witness ==
    /\ HasTree
    /\ <<1, 1, 1>> \in TreePositions(Tree)
    /\ StepOf(Tree, <<1, 1, 1>>).traversalId = "1_1_1"
    /\ StepOf(Tree, <<1, 1, 0>>).traversalId = "1_1_0"

\* C7: create calls Location.create in traversal order (flow, thread, step),
\* each call after the one before resolved; when a call rejects, create
\* rejects with that failure and returns no tree, and no later position is
\* resolved; create resolves only when no position fails.
C7_OrderedAllOrNothing ==
    Creating =>
        /\ \A n \in 1..Len(calls) :
              /\ calls[n] \in RawPositions
              /\ {calls[m] : m \in 1..(n - 1)} = {p \in RawPositions : LexLess(p, calls[n])}
              /\ n < Len(calls) => files[DescriptorOf(calls[n])] # "fail"
        /\ pc = "createAwait" => calls[Len(calls)] = <<cFIndex, tFIndex, stepIndex>>
        /\ pc = "created" =>
              /\ {calls[n] : n \in 1..Len(calls)} = RawPositions
              /\ \A p \in RawPositions : files[DescriptorOf(p)] # "fail"
        /\ pc = "createRejected" =>
              /\ returned = Undefined
              /\ codeFlows = << >>
              /\ error = "ResolutionFailure"
              /\ calls # << >>
              /\ files[DescriptorOf(calls[Len(calls)])] = "fail"

\* a rejection at the second position of three: two calls, none for the third
C7_Witness ==
    /\ pc = "createRejected"
    /\ error = "ResolutionFailure"
    /\ Len(calls) = 2
    /\ Cardinality(RawPositions) = 3
    /\ Len(Raw) = 2

(***************************************************************************)
(* tryRemapCodeFlows (Spec).                                               *)
(***************************************************************************)
Before == Val(before)

\* the location Location.create resolves with for the raw location at p,
\* as long as the files are unchanged
Resolution(p) == [mapped |-> files[DescriptorOf(p)] = "mapped", uri |-> DescriptorOf(p)]

\* C5: throughout a tryRemapCodeFlows call, ended or rejected, the tree
\* differs from the tree before the call only in the location of steps whose
\* location was not null and not mapped; a changed location is what
\* Location.create resolves with for the raw location at the same indices;
\* the steps with a null or a mapped location, every other field of every
\* step, and the number and order of flows, threads and steps are unchanged.
C5_RemapFrame ==
    Remapping =>
        IF before = Undefined THEN returned = Undefined
        ELSE /\ returned # Undefined
             /\ Len(Tree) = Len(Before)
             /\ \A i \in 1..Len(Before) :
                   /\ Tree[i].message = Before[i].message
                   /\ Len(Tree[i].threads) = Len(Before[i].threads)
                   /\ \A j \in 1..Len(Before[i].threads) :
                         /\ Tree[i].threads[j].id = Before[i].threads[j].id
                         /\ Tree[i].threads[j].message = Before[i].threads[j].message
                         /\ Len(Tree[i].threads[j].steps) = Len(Before[i].threads[j].steps)
             /\ \A p \in TreePositions(Before) :
                   LET old == StepOf(Before, p)
                       new == StepOf(Tree, p)
                   IN  /\ new = [old EXCEPT !.location = new.location]
                       /\ new.location # old.location =>
                             /\ old.location # Null
                             /\ ~old.location.mapped
                             /\ new.location.uri = DescriptorOf(p)
                             /\ unchanged => new.location = Resolution(p)

\* a call rejected after it mapped one step, past a step that was mapped
\* before the call and before a step it did not reach
C5_Witness ==
    /\ pc = "remapRejected"
    /\ error = "ResolutionFailure"
    /\ before # Undefined
    /\ \E p, q, r \in TreePositions(Before) :
          /\ LexLess(q, p) /\ LexLess(p, r)
          /\ StepOf(Before, q).location.mapped
          /\ StepOf(Tree, q) = StepOf(Before, q)
          /\ ~StepOf(Before, p).location.mapped
          /\ StepOf(Tree, p).location.mapped
          /\ ~StepOf(Tree, r).location.mapped

\* C6: a tryRemapCodeFlows call that follows another one, Location.create
\* answering the same, leaves the tree as the first call left it, and calls
\* Location.create for no step the first call left mapped.
C6_RemapIdempotent ==
    (Remapping /\ repeated) =>
        /\ returned = before
        /\ \A n \in 1..Len(calls) :
              /\ before # Undefined
              /\ ~StepOf(Before, calls[n]).location.mapped

\* a second call that ended, resolved a step again and skipped a mapped one
C6_Witness ==
    /\ pc = "remapDone"
    /\ repeated
    /\ calls # << >>
    /\ \E p \in TreePositions(Tree) :
          /\ StepOf(Tree, p).location.mapped
          /\ \A n \in 1..Len(calls) : calls[n] # p

(***************************************************************************)
(* Statements the code does not satisfy.                                   *)
(***************************************************************************)
\* C8: the message of a converted flow or thread is the parsed text when the
\* raw object has a message, and undefined otherwise; a raw message that is
\* absent or yields no parser result gives the message undefined, never a
\* failure.
C8_OptionalMessage ==
    /\ ~(pc = "createRejected" /\ error = "TypeError")
    /\ HasTree =>
          \A i \in 1..Len(Tree) :
              /\ Tree[i].message = IF HasText(Raw[i].message)
                                   THEN Def(TextOf(Raw[i].message)) ELSE Undefined
              /\ \A j \in 1..Len(Tree[i].threads) :
                    Tree[i].threads[j].message
                       = IF HasText(Raw[i].threadFlows[j].message)
                         THEN Def(TextOf(Raw[i].threadFlows[j].message)) ELSE Undefined

\* C10: with a Location.create that never fails, tryRemapCodeFlows called
\* with what create returned for a raw array, and that raw array (undefined
\* and the empty array included), ends without an index or field access
\* failure, and every step whose location was not null and not mapped then
\* has the location Location.create resolves with for its raw location.
C10_RemapAfterCreate ==
    (Remapping /\ unchanged /\ \A d \in Descriptors : files[d] # "fail") =>
        /\ pc # "remapRejected"
        /\ (pc = "remapDone" /\ before # Undefined) =>
              \A p \in TreePositions(Before) :
                  (StepOf(Before, p).location # Null /\ ~StepOf(Before, p).location.mapped)
                     => StepOf(Tree, p).location = Resolution(p)

====
